---- MODULE Spec2Model ----
(***************************************************************************)
(* Paper-trading backend: the "order" collection of the document store,    *)
(* POST /api/orders (create_order) and GET /api/positions (positions),     *)
(* with the batched quote lookup (fetch_quotes) positions makes.           *)
(*                                                                         *)
(* Numbers.  The arithmetic of positions is modelled exactly, on rationals;*)
(* the representation error of Python floats is not modelled.  round(x, n) *)
(* is modelled as what it does to the exact value: the nearest multiple of *)
(* 10^-n, ties to even.                                                    *)
(*   quantity        whole units                                           *)
(*   price, last     multiples of 1/PriceDen of a currency unit            *)
(*   cost            quantity * price, in 1/PriceDen                       *)
(*   avg_price       as returned: a count of 1/AvgScale  (round(x, 4))     *)
(*   unrealized_pnl  as returned: a count of 1/PnlScale  (round(x, 2))     *)
(* Each handler is one atomic step: the handlers are synchronous and share *)
(* no state but the store.                                                 *)
(***************************************************************************)
EXTENDS Integers, Sequences, FiniteSets, TLC

\* ------------------------------------------------------------------ bounds
MaxOrders == 2      \* documents the order collection may hold
PriceDen == 8       \* prices are multiples of 1/PriceDen

\* ------------------------------------------------------- program constants
AvgScale == 10000   \* round(avg_cost, 4)
PnlScale == 100     \* round(pnl, 2)
HTTP_OK == 200              \* a handler that returns; the status fetch_quotes accepts
HTTP_ERROR == 500           \* HTTPException(status_code=500, ...)
HTTP_BAD_GATEWAY == 502     \* HTTPException(status_code=502, ...)

\* ------------------------------------------------------------ input domains
Users == {"u1", "u2"}
Traders == {"u1"}
InputSymbols == {"a", "B"}
UpperSymbols == {"A", "B"}
Statuses == {"filled", "cancelled", "open"}
GatewayErrorStatuses == {503}   \* what the gateway may answer instead of 200

\* what the gateway quotes for a symbol when it quotes a price (in 1/PriceDen)
MarketPrice(sym) == IF sym = "A" THEN PriceDen + 3 ELSE 2 * PriceDen

VARIABLES
    store,      \* the "order" collection: a sequence of documents
    op,         \* the last request handled: "none", "create_order", "positions"
    req,        \* its input
    status,     \* its HTTP status
    items,      \* the "items" of a positions response (<<>> otherwise)
    gwCalls,    \* the quote lookups it sent to the gateway: a sequence of symbol lists
    gwResp      \* what the gateway answered (NoCall when none was sent)

vars == <<store, op, req, status, items, gwCalls, gwResp>>

\* ------------------------------------------------------------------ helpers
Abs(x) == IF x < 0 THEN -x ELSE x
Sgn(x) == IF x < 0 THEN -1 ELSE IF x > 0 THEN 1 ELSE 0

RECURSIVE SumF(_, _)
SumF(f, S) ==
    IF S = {} THEN 0
    ELSE LET x == CHOOSE y \in S : TRUE IN f[x] + SumF(f, S \ {x})

\* dict.get(k, d)
Get(o, k, d) == IF k \in DOMAIN o THEN o[k] ELSE d

\* str.upper() on the symbols in use
upper(s) == IF s = "a" THEN "A" ELSE IF s = "b" THEN "B" ELSE s

\* exact rationals num/den, den > 0
Rat(n, d) == [num |-> n, den |-> d]
RatSub(a, b) == Rat(a.num * b.den - b.num * a.den, a.den * b.den)
RatMul(a, b) == Rat(a.num * b.num, a.den * b.den)

\* n/d (d > 0) rounded to the nearest integer, ties to even
RoundHalfEven(n, d) ==
    LET q == n \div d
        r == n % d
    IN  IF 2 * r < d THEN q
        ELSE IF 2 * r > d THEN q + 1
        ELSE IF q % 2 = 0 THEN q ELSE q + 1

\* round(x, ndigits), returned as a count of 1/scale, scale = 10^ndigits
round(x, scale) == RoundHalfEven(x.num * scale, x.den)

\* ------------------------------------------------------------ schemas.Order
\* a slip that drops the gt=0 constraint on quantity
OrderValid_noQuantityCheck(o) ==
    /\ o.side \in {"buy", "sell"}
    /\ o.price > 0
    /\ o.status \in Statuses

\* pydantic validation of Order(...): Literal side, quantity > 0, price > 0
OrderValid(o) ==
    /\ o.side \in {"buy", "sell"}
    /\ o.quantity > 0
    /\ o.price > 0
    /\ o.status \in Statuses

\* --------------------------------------------------------- document store
\* create_document(collection, model): appends the model's fields
create_document(coll, doc) == Append(coll, doc)

\* get_documents(collection, filter): the documents whose fields equal the filter's
Matches(o, filt) == \A k \in DOMAIN filt : k \in DOMAIN o /\ o[k] = filt[k]
get_documents(coll, filt) == SelectSeq(coll, LAMBDA o : Matches(o, filt))

\* ------------------------------------------------------------- fetch_quotes
NoCall == [kind |-> "none"]
\* the gateway's answers: no answer, a non-200 status, or 200 with a result list
\* that quotes the symbols of `quoted`, those of `priced` with a price
GatewayAnswers ==
    {[kind |-> "network_error", status |-> 0, quoted |-> {}, priced |-> {}]}
    \cup {[kind |-> "http", status |-> c, quoted |-> {}, priced |-> {}] :
            c \in GatewayErrorStatuses}
    \cup {[kind |-> "http", status |-> HTTP_OK, quoted |-> x[1], priced |-> x[2]] :
            x \in {y \in (SUBSET UpperSymbols) \X (SUBSET UpperSymbols) :
                     y[2] \subseteq y[1]}}

NoQuotes == [s \in {} |-> 0]

\* a slip that answers a failed gateway call with an empty quote list
fetch_quotes_swallow(symbols, ans) ==
    IF ans.kind = "network_error" \/ ans.status # HTTP_OK
    THEN [raised |-> FALSE, code |-> 0, quotes |-> NoQuotes]
    ELSE [raised |-> FALSE, code |-> 0,
          quotes |-> [s \in ans.quoted |->
                        IF s \in ans.priced THEN MarketPrice(s) ELSE 0]]

\* the result: raised (with the status of the HTTPException, 0 for an exception
\* of requests.get) or the list of QuoteResponse, here as a map symbol -> price;
\* an item without regularMarketPrice is priced 0.0
fetch_quotes(symbols, ans) ==
    IF ans.kind = "network_error"
    THEN [raised |-> TRUE, code |-> 0, quotes |-> NoQuotes]
    ELSE IF ans.status # HTTP_OK
    THEN [raised |-> TRUE, code |-> HTTP_BAD_GATEWAY, quotes |-> NoQuotes]
    ELSE [raised |-> FALSE, code |-> 0,
          quotes |-> [s \in ans.quoted |->
                        IF s \in ans.priced THEN MarketPrice(s) ELSE 0]]

\* ---------------------------------------------------------------- positions
\* (1 if o.get("side") == "buy" else -1)
side_sign(o) == IF Get(o, "side", "") = "buy" THEN 1 ELSE -1

\* a slip that accumulates the price, not price * quantity
AggStep_unweighted(agg, o) ==
    LET sym == upper(o.symbol)
        qty == Get(o, "quantity", 0) * side_sign(o)
        cost == Get(o, "price", 0) * side_sign(o)
        agg1 == IF \E i \in 1..Len(agg) : agg[i].symbol = sym
                THEN agg
                ELSE Append(agg, [symbol |-> sym, qty |-> 0, cost |-> 0])
        k == CHOOSE i \in 1..Len(agg1) : agg1[i].symbol = sym
    IN  [agg1 EXCEPT ![k].qty = @ + qty, ![k].cost = @ + cost]

\* a slip that keys the aggregate by the symbol as stored
AggStep_noUpper(agg, o) ==
    LET sym == o.symbol
        qty == Get(o, "quantity", 0) * side_sign(o)
        cost == Get(o, "price", 0) * Get(o, "quantity", 0) * side_sign(o)
        agg1 == IF \E i \in 1..Len(agg) : agg[i].symbol = sym
                THEN agg
                ELSE Append(agg, [symbol |-> sym, qty |-> 0, cost |-> 0])
        k == CHOOSE i \in 1..Len(agg1) : agg1[i].symbol = sym
    IN  [agg1 EXCEPT ![k].qty = @ + qty, ![k].cost = @ + cost]

\* one pass of the aggregation loop
AggStep(agg, o) ==
    LET sym == upper(o.symbol)
        qty == Get(o, "quantity", 0) * side_sign(o)
        cost == Get(o, "price", 0) * Get(o, "quantity", 0) * side_sign(o)
        agg1 == IF \E i \in 1..Len(agg) : agg[i].symbol = sym
                THEN agg
                ELSE Append(agg, [symbol |-> sym, qty |-> 0, cost |-> 0])
        k == CHOOSE i \in 1..Len(agg1) : agg1[i].symbol = sym
    IN  [agg1 EXCEPT ![k].qty = @ + qty, ![k].cost = @ + cost]

RECURSIVE Aggregate(_, _)
Aggregate(agg, orders) ==
    IF orders = <<>> THEN agg
    ELSE Aggregate(AggStep(agg, Head(orders)), Tail(orders))

\* a slip that sends one lookup per symbol
lookups_perSymbol(symbols) == [i \in 1..Len(symbols) |-> <<symbols[i]>>]

\* the quote lookups of one request: fetch_quotes(symbols) if symbols else []
lookups(symbols) == IF symbols # <<>> THEN <<symbols>> ELSE <<>>

\* avg_cost = (a["cost"] / abs(a["qty"])) if a["qty"] != 0 else 0.0
avg_cost(a) ==
    IF a.qty # 0 THEN Rat(a.cost, PriceDen * Abs(a.qty)) ELSE Rat(0, 1)

\* a slip that prices a symbol without a quote at 1.0
last_defaultOne(a, qmap) ==
    IF a.symbol \in DOMAIN qmap THEN qmap[a.symbol] ELSE PriceDen

\* last = float(mkt.price) if mkt else 0.0, in 1/PriceDen
last(a, qmap) == IF a.symbol \in DOMAIN qmap THEN qmap[a.symbol] ELSE 0

\* a slip that multiplies by the size of the position, not the signed quantity
pnl_absQty(a, qmap) ==
    RatMul(RatSub(Rat(last(a, qmap), PriceDen), avg_cost(a)), Rat(Abs(a.qty), 1))

\* a slip of precedence: last - avg_cost * qty
pnl_precedence(a, qmap) ==
    RatSub(Rat(last(a, qmap), PriceDen), RatMul(avg_cost(a), Rat(a.qty, 1)))

\* pnl = (last - avg_cost) * qty
pnl(a, qmap) ==
    RatMul(RatSub(Rat(last(a, qmap), PriceDen), avg_cost(a)), Rat(a.qty, 1))

\* the position of one aggregate, given the quote map
Position(a, qmap) ==
    [symbol |-> a.symbol,
     quantity |-> a.qty,
     avg_price |-> round(avg_cost(a), AvgScale),
     last |-> last(a, qmap),
     unrealized_pnl |-> round(pnl(a, qmap), PnlScale)]

\* symbols = list(agg.keys())
symbols_of(agg) == [i \in 1..Len(agg) |-> agg[i].symbol]

\* (the aggregate, its symbols and the quotes are bound by \E to single values)
positions(user_id, ans) ==
    \E agg \in {Aggregate(<<>>, get_documents(store, [user_id |-> user_id,
                                                     status |-> "filled"]))} :
    \E symbols \in {symbols_of(agg)} :
      /\ (symbols = <<>>) <=> (ans = NoCall)
      /\ \E fq \in {IF symbols # <<>> THEN fetch_quotes(symbols, ans)
                    ELSE [raised |-> FALSE, code |-> 0, quotes |-> NoQuotes]} :
        /\ op' = "positions"
        /\ req' = [user_id |-> user_id]
        /\ gwCalls' = lookups(symbols)
        /\ gwResp' = ans
        /\ IF fq.raised
           THEN /\ status' = HTTP_ERROR
                /\ items' = <<>>
           ELSE /\ status' = HTTP_OK
                /\ items' = [i \in 1..Len(agg) |-> Position(agg[i], fq.quotes)]
        /\ UNCHANGED store

\* ------------------------------------------------------------- create_order
ValidInputs ==
    [user_id : Traders, symbol : InputSymbols, side : {"buy", "sell"},
     quantity : {1, 2}, price : {1, PriceDen}]

SampleInput ==
    [user_id |-> "u1", symbol |-> "a", side |-> "buy", quantity |-> 1, price |-> PriceDen]

InvalidInputs ==
    { [SampleInput EXCEPT !.side = "hold"],
      [SampleInput EXCEPT !.quantity = 0],
      [SampleInput EXCEPT !.quantity = -1],
      [SampleInput EXCEPT !.price = 0],
      [SampleInput EXCEPT !.price = -PriceDen] }

OrderInputs == ValidInputs \cup InvalidInputs

\* Order(user_id=o.user_id, symbol=o.symbol.upper(), ..., status='filled')
OrderDoc(o) ==
    [user_id |-> o.user_id, symbol |-> upper(o.symbol), side |-> o.side,
     quantity |-> o.quantity, price |-> o.price, status |-> "filled"]

create_order(o) ==
    /\ OrderValid(OrderDoc(o)) => Len(store) < MaxOrders
    /\ op' = "create_order"
    /\ req' = o
    /\ items' = <<>>
    /\ gwCalls' = <<>>
    /\ gwResp' = NoCall
    /\ IF OrderValid(OrderDoc(o))
       THEN /\ store' = create_document(store, OrderDoc(o))
            /\ status' = HTTP_OK
       ELSE /\ store' = store
            /\ status' = HTTP_ERROR

\* -------------------------------------------------------------------- specs
NoRequest ==
    /\ op = "none"
    /\ req = [user_id |-> "u1"]
    /\ status = HTTP_OK
    /\ items = <<>>
    /\ gwCalls = <<>>
    /\ gwResp = NoCall

\* the process starts on an empty order collection
Init == store = <<>> /\ NoRequest

Next ==
    \/ \E o \in OrderInputs : create_order(o)
    \/ \E u \in Users : \E ans \in GatewayAnswers \cup {NoCall} : positions(u, ans)

Spec == Init /\ [][Next]_vars

\* The process starts on a collection that already holds one document written
\* by another client of the schema-less store: any owner, symbol case and
\* status, possibly without its numeric fields.
LegacyDocs ==
    [user_id : Users, symbol : {"a", "A", "B"}, side : {"buy", "sell"},
     quantity : {1}, price : {PriceDen}, status : Statuses]
    \cup [user_id : {"u1"}, symbol : UpperSymbols, side : {"buy"},
          price : {PriceDen}, status : {"filled"}]
    \cup [user_id : {"u1"}, symbol : UpperSymbols, side : {"buy"},
          quantity : {1}, status : {"filled"}]
    \cup [user_id : {"u1"}, symbol : UpperSymbols, side : {"buy"},
          status : {"filled"}]

InitLegacy == (\E d \in LegacyDocs : store = <<d>>) /\ NoRequest

SpecLegacy == InitLegacy /\ [][Next]_vars

\* ======================================================== claimed properties
\* What a response is measured against: the stored orders themselves, summed
\* per symbol without regard to their order in the collection.
U == req.user_id
FilledIdx(u) ==
    {i \in 1..Len(store) : store[i].user_id = u /\ store[i].status = "filled"}
SymbolIdx(u, s) == {i \in FilledIdx(u) : upper(store[i].symbol) = s}
HeldSymbols(u) == {upper(store[i].symbol) : i \in FilledIdx(u)}
SignOf(i) == IF store[i].side = "buy" THEN 1 ELSE -1
QtyOf(i) == Get(store[i], "quantity", 0)
PriceOf(i) == Get(store[i], "price", 0)
NetQty(u, s) == SumF([i \in SymbolIdx(u, s) |-> SignOf(i) * QtyOf(i)], SymbolIdx(u, s))
NetCost(u, s) ==
    SumF([i \in SymbolIdx(u, s) |-> SignOf(i) * QtyOf(i) * PriceOf(i)], SymbolIdx(u, s))
BuyQty(u, s) ==
    SumF([i \in SymbolIdx(u, s) |-> IF SignOf(i) = 1 THEN QtyOf(i) ELSE 0], SymbolIdx(u, s))
SellQty(u, s) ==
    SumF([i \in SymbolIdx(u, s) |-> IF SignOf(i) = 1 THEN 0 ELSE QtyOf(i)], SymbolIdx(u, s))
AllBuys(u, s) == \A i \in SymbolIdx(u, s) : store[i].side = "buy"
ItemSymbols == {items[k].symbol : k \in 1..Len(items)}

PosOK == op = "positions" /\ status = HTTP_OK
GwOK == gwResp.kind = "http" /\ gwResp.status = HTTP_OK
GwFailed == gwResp.kind = "network_error" \/ (gwResp.kind = "http" /\ gwResp.status # HTTP_OK)
QuotePrice(s) == IF s \in gwResp.priced THEN MarketPrice(s) ELSE 0

\* (last - cost/|qty|) * qty, in 1/PriceDen, for the stored orders of a symbol
ExactPnl(u, s, lastPrice) ==
    (lastPrice * Abs(NetQty(u, s)) - NetCost(u, s)) * Sgn(NetQty(u, s))

\* ---------------------------------------------------------------------- C1
\* C1 (as claimed): every returned avg_price is abs(signed_cost)/abs(signed_qty)
\* (to the 4 decimals returned) when the net quantity is non-zero and 0
\* otherwise; in particular it is never negative.
C1_AvgPriceMagnitude ==
    PosOK =>
        \A k \in 1..Len(items) :
            LET q == NetQty(U, items[k].symbol)
                c == NetCost(U, items[k].symbol)
            IN  /\ items[k].avg_price >= 0
                /\ items[k].avg_price =
                      IF q # 0 THEN RoundHalfEven(Abs(c) * AvgScale, PriceDen * Abs(q))
                      ELSE 0

\* ---------------------------------------------------------------------- C2
\* C2: when the gateway call of a positions request fails (network error or a
\* non-200 status) and the user has a filled order, the request ends with a
\* server error and returns no position at all.
C2_GatewayFailureFailsRequest ==
    (op = "positions" /\ HeldSymbols(U) # {} /\ GwFailed) =>
        /\ status >= 500
        /\ status < 600
        /\ items = <<>>

C2_Witness ==
    /\ op = "positions"
    /\ Cardinality(HeldSymbols(U)) = 2
    /\ gwResp.kind = "http"
    /\ gwResp.status \in GatewayErrorStatuses
    /\ status = HTTP_ERROR

\* ---------------------------------------------------------------------- C3
\* C3 (as claimed): when the gateway answers but quotes no price for a held
\* symbol, its position is still returned with last = 0 and
\* unrealized_pnl = -avg_price * quantity; the other symbols get their quote.
C3_MissingQuoteOriginal ==
    (op = "positions" /\ GwOK) =>
        /\ status = HTTP_OK
        /\ ItemSymbols = HeldSymbols(U)
        /\ \A k \in 1..Len(items) :
              IF items[k].symbol \notin gwResp.quoted
              THEN /\ items[k].last = 0
                   /\ items[k].unrealized_pnl * AvgScale =
                         -(items[k].avg_price * items[k].quantity * PnlScale)
              ELSE items[k].last = QuotePrice(items[k].symbol)

\* C3 (amended): such a position is returned with last = 0 and unrealized_pnl
\* the 2-decimal rounding of -avg * quantity, avg being the unrounded average
\* cost; every quoted symbol has last = its quote and unrealized_pnl the
\* 2-decimal rounding of (last - avg) * quantity.
C3_MissingQuoteRounded ==
    (op = "positions" /\ GwOK) =>
        /\ status = HTTP_OK
        /\ ItemSymbols = HeldSymbols(U)
        /\ \A k \in 1..Len(items) :
              LET s == items[k].symbol IN
              IF s \notin gwResp.quoted
              THEN /\ items[k].last = 0
                   /\ items[k].unrealized_pnl =
                         RoundHalfEven(ExactPnl(U, s, 0) * PnlScale, PriceDen)
              ELSE /\ items[k].last = QuotePrice(s)
                   /\ items[k].unrealized_pnl =
                         RoundHalfEven(ExactPnl(U, s, QuotePrice(s)) * PnlScale, PriceDen)

C3_Witness ==
    /\ PosOK
    /\ GwOK
    /\ \E k \in 1..Len(items) :
          /\ items[k].symbol \notin gwResp.quoted
          /\ items[k].quantity # 0
          /\ items[k].unrealized_pnl # 0
    /\ \E k \in 1..Len(items) :
          /\ items[k].symbol \in gwResp.priced
          /\ items[k].last > 0

\* ---------------------------------------------------------------------- C4
\* C4 (as claimed): the returned fields of every position satisfy
\* unrealized_pnl = (last - avg_price) * quantity exactly.
C4_PnlExactOriginal ==
    PosOK =>
        \A k \in 1..Len(items) :
            items[k].unrealized_pnl * PriceDen * AvgScale =
                (items[k].last * AvgScale - items[k].avg_price * PriceDen)
                    * items[k].quantity * PnlScale

\* C4 (amended): unrealized_pnl is (last - avg) * quantity rounded to 2
\* decimals, avg being the unrounded average of which avg_price is the
\* 4-decimal rounding; the returned fields agree up to these roundings:
\* |unrealized_pnl - (last - avg_price) * quantity| <= 0.005 + 0.00005 * |quantity|.
C4_PnlRounded ==
    PosOK =>
        \A k \in 1..Len(items) :
            LET s == items[k].symbol
                q == NetQty(U, s)
                c == NetCost(U, s)
                d == items[k].unrealized_pnl * PriceDen * AvgScale
                       - (items[k].last * AvgScale - items[k].avg_price * PriceDen)
                           * items[k].quantity * PnlScale
            IN  /\ items[k].quantity = q
                /\ items[k].avg_price =
                      IF q # 0 THEN RoundHalfEven(c * AvgScale, PriceDen * Abs(q)) ELSE 0
                /\ items[k].unrealized_pnl =
                      RoundHalfEven(ExactPnl(U, s, items[k].last) * PnlScale, PriceDen)
                /\ 2 * Abs(d) <= PriceDen * AvgScale + Abs(q) * PriceDen * PnlScale

C4_Witness ==
    /\ PosOK
    /\ \E k \in 1..Len(items) :
          /\ items[k].quantity < 0
          /\ items[k].last > 0
          /\ items[k].unrealized_pnl * PriceDen * AvgScale #
                (items[k].last * AvgScale - items[k].avg_price * PriceDen)
                    * items[k].quantity * PnlScale

\* ---------------------------------------------------------------------- C5
SumQty(u, s) == SumF([i \in SymbolIdx(u, s) |-> QtyOf(i)], SymbolIdx(u, s))
SumQtyPrice(u, s) ==
    SumF([i \in SymbolIdx(u, s) |-> QtyOf(i) * PriceOf(i)], SymbolIdx(u, s))

\* the aggregate of symbol s when the filled orders are processed in order pi
AggOfPermuted(u, s, pi) ==
    LET orders == get_documents(store, [user_id |-> u, status |-> "filled"])
        agg == Aggregate(<<>>, [i \in 1..Len(orders) |-> orders[pi[i]]])
    IN  {agg[j] : j \in {j \in 1..Len(agg) : agg[j].symbol = s}}
FilledCount(u) == Cardinality(FilledIdx(u))

\* C5 (as claimed): for a symbol whose filled orders are all buys, quantity is
\* the sum of the quantities and avg_price equals sum(quantity*price) /
\* sum(quantity).
C5_AllBuysMeanOriginal ==
    PosOK =>
        \A k \in 1..Len(items) :
            AllBuys(U, items[k].symbol) =>
                /\ items[k].quantity = SumQty(U, items[k].symbol)
                /\ items[k].avg_price * PriceDen * SumQty(U, items[k].symbol) =
                      SumQtyPrice(U, items[k].symbol) * AvgScale

\* C5 (amended): for a symbol whose filled orders are all buys, quantity is the
\* sum of the quantities and avg_price is sum(quantity*price) / sum(quantity)
\* rounded to 4 decimals, whatever the order in which the orders are processed.
C5_AllBuysMeanRounded ==
    PosOK =>
        \A k \in 1..Len(items) :
            LET s == items[k].symbol IN
            AllBuys(U, s) =>
                /\ items[k].quantity = SumQty(U, s)
                /\ SumQty(U, s) > 0
                /\ items[k].avg_price =
                      RoundHalfEven(SumQtyPrice(U, s) * AvgScale, PriceDen * SumQty(U, s))
                /\ \A pi \in Permutations(1..FilledCount(U)) :
                      AggOfPermuted(U, s, pi) =
                          {[symbol |-> s, qty |-> SumQty(U, s), cost |-> SumQtyPrice(U, s)]}

C5_Witness ==
    /\ PosOK
    /\ \E k \in 1..Len(items) :
          /\ AllBuys(U, items[k].symbol)
          /\ Cardinality(SymbolIdx(U, items[k].symbol)) >= 2
          /\ \E i, j \in SymbolIdx(U, items[k].symbol) :
                QtyOf(i) # QtyOf(j) /\ PriceOf(i) # PriceOf(j)
          /\ items[k].avg_price * PriceDen * SumQty(U, items[k].symbol) #
                SumQtyPrice(U, items[k].symbol) * AvgScale

C7_OneBatchedLookup ==
    /\ Len(gwCalls) <= 1
    /\ (op = "positions" /\ HeldSymbols(U) # {}) =>
          /\ Len(gwCalls) = 1
          /\ {gwCalls[1][i] : i \in 1..Len(gwCalls[1])} = HeldSymbols(U)
          /\ Len(gwCalls[1]) = Cardinality(HeldSymbols(U))

C7_Witness ==
    /\ op = "positions"
    /\ Cardinality(HeldSymbols(U)) = 2
    /\ Len(gwCalls) = 1
    /\ Len(gwCalls[1]) = 2

\* ---------------------------------------------------------------------- C8
\* C8: a successful positions response holds exactly one position per distinct
\* uppercased symbol of the user's filled orders: case variants are merged,
\* a net quantity of 0 is still listed, and orders of other users or of
\* another status add nothing.
C8_OnePositionPerSymbol ==
    PosOK =>
        /\ ItemSymbols = HeldSymbols(U)
        /\ Len(items) = Cardinality(HeldSymbols(U))
        /\ \A k \in 1..Len(items) : items[k].quantity = NetQty(U, items[k].symbol)

C8_Witness ==
    /\ PosOK
    /\ Len(store) = 2
    /\ store[1].symbol = "a"
    /\ store[2].symbol = "A"
    /\ FilledIdx(U) = {1, 2}
    /\ Len(items) = 1
    /\ items[1].symbol = "A"
    /\ items[1].quantity = 0

\* ---------------------------------------------------------------------- C9
WellFormed(i) == "quantity" \in DOMAIN store[i] /\ "price" \in DOMAIN store[i]
WellFormedIdx(u, s) == {i \in SymbolIdx(u, s) : WellFormed(i)}
WellFormedQty(u, s) ==
    SumF([i \in WellFormedIdx(u, s) |-> SignOf(i) * QtyOf(i)], WellFormedIdx(u, s))
WellFormedCost(u, s) ==
    SumF([i \in WellFormedIdx(u, s) |-> SignOf(i) * QtyOf(i) * PriceOf(i)],
         WellFormedIdx(u, s))

\* C9 (as claimed): a filled order without quantity or price does not make
\* positions fail; every symbol is still returned, and the order adds zero to
\* the signed quantity and to the signed cost of its symbol.
C9_MalformedOrderContributesZero ==
    (op = "positions" /\ ~GwFailed) =>
        /\ status = HTTP_OK
        /\ ItemSymbols = HeldSymbols(U)
        /\ \A k \in 1..Len(items) :
              LET q == WellFormedQty(U, items[k].symbol)
                  c == WellFormedCost(U, items[k].symbol)
              IN  /\ items[k].quantity = q
                  /\ items[k].avg_price =
                        IF q # 0 THEN RoundHalfEven(c * AvgScale, PriceDen * Abs(q))
                        ELSE 0

\* --------------------------------------------------------------------- C10
InputValid(o) == o.side \in {"buy", "sell"} /\ o.quantity > 0 /\ o.price > 0
StoredOrderValid(d) ==
    /\ d.quantity > 0
    /\ d.price > 0
    /\ d.side \in {"buy", "sell"}
    /\ d.status = "filled"
    /\ d.symbol \in UpperSymbols

\* C10: every stored order has quantity > 0, price > 0, a side of buy or sell,
\* status filled and an uppercase symbol; a create_order with quantity <= 0,
\* price <= 0 or another side answers an error and leaves the store as it was.
C10_StoredOrdersValid ==
    /\ [](\A i \in 1..Len(store) : StoredOrderValid(store[i]))
    /\ []((op = "create_order" /\ ~InputValid(req)) => status >= 400)
    /\ [][(op' = "create_order" /\ ~InputValid(req')) => store' = store]_vars
    /\ [][store' # store =>
            /\ op' = "create_order"
            /\ InputValid(req')
            /\ store' = Append(store, [req' EXCEPT !.symbol = upper(@)]
                                        @@ [status |-> "filled"])]_vars

C10_Witness ==
    /\ op = "create_order"
    /\ req.quantity <= 0
    /\ status = HTTP_ERROR
    /\ Len(store) = MaxOrders

====
